---- MODULE Spec2Model ----
(***************************************************************************)
(* Model of the Strava dashboard script app.py: one render pass of the     *)
(* script (load, column normalisation, validity pass, sidebar, time-window *)
(* filter, KPIs, charts, download) and the user interactions that make     *)
(* Streamlit run the script again.                                         *)
(*                                                                         *)
(* Numbers.  A float is an exact rational <<n, d>> (d > 0, lowest terms);  *)
(* NaN / None / NaT is the empty tuple.  A string the program builds or    *)
(* parses is a tuple of one-character strings.                             *)
(***************************************************************************)
EXTENDS Integers, Sequences, FiniteSets, TLC

VARIABLES csv, pc, df, df_filtered, rendered, kpi, cat_pace, exception,
          sel_year, sel_month, sel_day, per_page, max_pages, clicked,
          btn_fetch, fetch_calls, year_options, month_options, day_options,
          arg, ret

vars == <<csv, pc, df, df_filtered, rendered, kpi, cat_pace, exception,
          sel_year, sel_month, sel_day, per_page, max_pages, clicked,
          btn_fetch, fetch_calls, year_options, month_options, day_options,
          arg, ret>>

-----------------------------------------------------------------------------
(* Bounds of the model.                                                    *)

\* longest activity table read from activities.csv
MaxRows == 2

\* largest |pace| handed to format_pace_minutes, in minutes
MaxPaceMin == 6

\* largest distance handed to categorize_distance, in km
MaxDistKm == 22

-----------------------------------------------------------------------------
(* Exact arithmetic standing for float arithmetic.                         *)

RECURSIVE Gcd(_, _)
Gcd(a, b) == IF b = 0 THEN a ELSE Gcd(b, a % b)

Abs(n) == IF n < 0 THEN -n ELSE n

NaN == <<>>

Real(n, d) == LET g == Gcd(Abs(n), d) IN <<n \div g, d \div g>>

isna(x) == x = NaN

RAdd(x, y) == Real(x[1] * y[2] + y[1] * x[2], x[2] * y[2])

RSub(x, y) == Real(x[1] * y[2] - y[1] * x[2], x[2] * y[2])

\* x / k for a positive integer literal k; NaN propagates
RDivInt(x, k) == IF isna(x) THEN NaN ELSE Real(x[1], x[2] * k)

\* x / y for y > 0
RDiv(x, y) == Real(x[1] * y[2], x[2] * y[1])

RMulInt(x, k) == Real(x[1] * k, x[2])

\* x > 0 as pandas evaluates it: False for NaN
GtZero(x) == IF isna(x) THEN FALSE ELSE x[1] > 0

RLess(x, y) == x[1] * y[2] < y[1] * x[2]

\* nearest integer to n/d (d > 0), ties to the even neighbour
RoundHalfEven(n, d) ==
    LET q == n \div d
        r == n % d
    IN  IF 2 * r < d THEN q
        ELSE IF 2 * r > d THEN q + 1
        ELSE IF q % 2 = 0 THEN q ELSE q + 1

\* round(x, 1)
round1(x) == Real(RoundHalfEven(10 * x[1], x[2]), 10)

\* int(x): truncation towards zero
int(x) == IF x[1] >= 0 THEN x[1] \div x[2] ELSE -((-x[1]) \div x[2])

-----------------------------------------------------------------------------
(* Strings.                                                                *)

DigitChar == <<"0", "1", "2", "3", "4", "5", "6", "7", "8", "9">>

RECURSIVE Digits(_)
Digits(n) == IF n < 10 THEN <<DigitChar[n + 1]>>
             ELSE Digits(n \div 10) \o <<DigitChar[(n % 10) + 1]>>

\* str(n) and f"{n}"
str(n) == IF n < 0 THEN <<"-">> \o Digits(-n) ELSE Digits(n)

\* f"{n:02d}": zero-padded to width 2, the sign counts in the width
fmt02d(n) == LET s == str(n) IN IF Len(s) < 2 THEN <<"0">> \o s ELSE s

CharVal(c) == CHOOSE i \in 0..9 : DigitChar[i + 1] = c

RECURSIVE ParseDigits(_)
ParseDigits(s) == IF Len(s) = 0 THEN 0
                  ELSE 10 * ParseDigits(SubSeq(s, 1, Len(s) - 1)) + CharVal(s[Len(s)])

\* int(s) for a string of decimal digits
parse_int(s) == ParseDigits(s)

NA == <<"N", "/", "A">>

Todos == <<"T", "o", "d", "o", "s">>

-----------------------------------------------------------------------------
(* Helper functions of app.py.                                             *)

format_pace_minutes(pace_min) ==
    IF isna(pace_min) \/ pace_min[1] = 0 THEN NA
    ELSE LET p    == round1(pace_min)
             mins == int(p)
             f    == RMulInt(RSub(p, Real(mins, 1)), 60)
             secs == RoundHalfEven(f[1], f[2])
         IN  str(mins) \o <<":">> \o fmt02d(secs)

Light == "Treino leve (< 5km)"

Short == "Curta (5-10km)"

Medium == "Médio (10-21km)"

HalfMarathonPlus == "Meia maratona (> 21km)"

Categories == {Light, Short, Medium, HalfMarathonPlus}

\* the boundary slip: upper bounds taken inclusive
categorize_distance_mut(distance_km) ==
    IF ~RLess(Real(5, 1), distance_km) THEN Light
    ELSE IF ~RLess(Real(10, 1), distance_km) THEN Short
    ELSE IF ~RLess(Real(21, 1), distance_km) THEN Medium
    ELSE HalfMarathonPlus

categorize_distance(distance_km) ==
    IF RLess(distance_km, Real(5, 1)) THEN Light
    ELSE IF RLess(distance_km, Real(10, 1)) THEN Short
    ELSE IF RLess(distance_km, Real(21, 1)) THEN Medium
    ELSE HalfMarathonPlus

-----------------------------------------------------------------------------
(* The activity table.  A frame is [columns, rows]; a row maps each column *)
(* of the frame to its cell.                                               *)

EmptyFrame == [columns |-> {}, rows |-> <<>>]

\* DataFrame.empty
empty(d) == d.columns = {} \/ d.rows = <<>>

\* a cell that is not a number, as read from the file
Text == <<"-">>

\* pd.to_numeric(v, errors="coerce")
to_numeric(v) == IF Len(v) = 2 THEN v ELSE NaN

NaT == <<>>

DaysIn == <<31, 29, 31, 30, 31, 30, 31, 31, 30, 31, 30, 31>>

\* pd.to_datetime(v, errors="coerce") of the text fields <<year, month, day>>
to_datetime(v) ==
    IF Len(v) = 3 /\ v[2] \in 1..12 /\ v[3] >= 1 /\ v[3] <= DaysIn[v[2]]
    THEN v ELSE NaT

\* .dt.year, .dt.month, .dt.day
year(d) == d[1]

month(d) == d[2]

day(d) == d[3]

\* df[c] = f(row) for every row; an existing column c is overwritten
WithColumn(d, c, f(_)) ==
    [columns |-> d.columns \cup {c},
     rows    |-> [i \in 1..Len(d.rows) |->
                    [k \in d.columns \cup {c} |->
                        IF k = c THEN f(d.rows[i]) ELSE d.rows[i][k]]]]

\* df[mask]
Where(d, keep(_)) == [columns |-> d.columns, rows |-> SelectSeq(d.rows, keep)]

\* the first name of a priority list that is a column of the frame, or "" 
FirstPresent(names, d) ==
    IF \E i \in 1..Len(names) : names[i] \in d.columns
    THEN names[CHOOSE i \in 1..Len(names) :
                 /\ names[i] \in d.columns
                 /\ \A j \in 1..(i - 1) : names[j] \notin d.columns]
    ELSE ""

-----------------------------------------------------------------------------
(* Input domain: the files activities.csv can be.                          *)

Activities ==
    { [date |-> <<2024, 3, 1>>,  distance |-> Real(5000, 1), moving_time |-> Real(1800, 1),
       type |-> "Run",  name |-> "a1"],
      [date |-> <<2024, 3, 5>>,  distance |-> Real(0, 1),    moving_time |-> Real(600, 1),
       type |-> "Run",  name |-> "a2"],
      [date |-> <<2023, 1, 5>>,  distance |-> Real(9000, 1), moving_time |-> Real(3780, 1),
       type |-> "Ride", name |-> "a3"],
      [date |-> <<2024, 13, 1>>, distance |-> Real(12000, 1), moving_time |-> Real(3600, 1),
       type |-> "Walk", name |-> "a4"],
      [date |-> <<2023, 3, 1>>,  distance |-> Text,          moving_time |-> Real(-60, 1),
       type |-> "Run",  name |-> "a5"] }

Schemas ==
    { {"start_date", "distance", "moving_time", "elapsed_time", "sport_type", "name"},
      {"date", "distance_km", "duration_min", "type", "name"},
      {"date", "distance", "moving_time"},
      {"start_date_local", "name"},
      {"distance", "moving_time", "type", "name"} }

\* the cell of activity a under column c
CellOf(a, c) ==
    CASE c \in {"date", "start_date", "start_date_local"} -> a.date
      [] c = "distance"     -> a.distance
      [] c = "distance_km"  -> RDivInt(to_numeric(a.distance), 1000)
      [] c \in {"moving_time", "duration"} -> a.moving_time
      [] c = "elapsed_time" -> RAdd(a.moving_time, Real(60, 1))
      [] c = "duration_min" -> RDivInt(a.moving_time, 60)
      [] c \in {"sport_type", "type", "activity_type"} -> <<a.type>>
      [] OTHER              -> <<a.name>>

RECURSIVE SeqsUpTo(_, _)
SeqsUpTo(S, n) ==
    IF n = 0 THEN {<<>>}
    ELSE LET shorter == SeqsUpTo(S, n - 1)
         IN  shorter \cup {Append(q, x) : q \in shorter, x \in S}

Files ==
    {[exists |-> FALSE, readable |-> FALSE, columns |-> {}, rows |-> <<>>],
     [exists |-> TRUE,  readable |-> FALSE, columns |-> {}, rows |-> <<>>]}
    \cup
    {[exists |-> TRUE, readable |-> TRUE, columns |-> cols,
      rows |-> [i \in 1..Len(as) |-> [c \in cols |-> CellOf(as[i], c)]]] :
        cols \in Schemas, as \in SeqsUpTo(Activities, MaxRows)}

-----------------------------------------------------------------------------
(* The render pass, top of the script to the validity pass.                *)

NoKpi == [acts |-> <<>>, dist |-> <<>>, hours |-> <<>>, pace |-> <<>>]

NoCall == NaN

Init ==
    /\ csv \in Files
    /\ pc = "load"
    /\ df = EmptyFrame
    /\ df_filtered = EmptyFrame
    /\ rendered = {}
    /\ kpi = NoKpi
    /\ cat_pace = {}
    /\ exception = ""
    /\ sel_year = Todos
    /\ sel_month = Todos
    /\ sel_day = Todos
    /\ per_page = 50
    /\ max_pages = 4
    /\ clicked = FALSE
    /\ btn_fetch = FALSE
    /\ fetch_calls = <<>>
    /\ year_options = <<>>
    /\ month_options = <<>>
    /\ day_options = <<>>
    /\ arg = NoCall
    /\ ret = <<>>

\* pd.read_csv(csv_path), or the empty frame the script falls back to
read_csv(f) == IF f.exists /\ f.readable
               THEN [columns |-> f.columns, rows |-> f.rows]
               ELSE EmptyFrame

\* the message the loading block shows for the file
LoadMessage(f) == IF ~f.exists THEN "warning_no_local_data"
                  ELSE IF f.readable THEN "info_csv_loaded"
                  ELSE "error_csv"

Load ==
    /\ pc = "load"
    /\ btn_fetch' = FALSE
    /\ df' = read_csv(csv)
    /\ IF empty(df')
       THEN /\ rendered' = rendered \cup {LoadMessage(csv), "error_no_data"}
            /\ pc' = "stopped"
       ELSE /\ rendered' = rendered \cup {LoadMessage(csv)}
            /\ pc' = "date_col"
    /\ UNCHANGED <<csv, df_filtered, kpi, cat_pace, exception, sel_year, sel_month,
                   sel_day, per_page, max_pages, clicked, fetch_calls,
                   year_options, month_options, day_options, arg, ret>>

DateColumns == <<"date", "start_date", "start_date_local">>

\* df[date_col] = pd.to_datetime(...); df.rename(columns={date_col: "date"})
parse_and_rename(d, date_col) ==
    LET cols == (d.columns \ {date_col}) \cup {"date"}
    IN  [columns |-> cols,
         rows    |-> [i \in 1..Len(d.rows) |->
                        [k \in cols |-> IF k = "date"
                                        THEN to_datetime(d.rows[i][date_col])
                                        ELSE d.rows[i][k]]]]

DateColumn ==
    /\ pc = "date_col"
    /\ LET date_col == FirstPresent(DateColumns, df)
       IN  IF date_col = ""
           THEN /\ rendered' = rendered \cup {"error_no_date_column"}
                /\ pc' = "stopped"
                /\ df' = df
           ELSE /\ df' = parse_and_rename(df, date_col)
                /\ pc' = "normalize"
                /\ rendered' = rendered
    /\ UNCHANGED <<csv, df_filtered, kpi, cat_pace, exception, sel_year, sel_month,
                   sel_day, per_page, max_pages, clicked, btn_fetch, fetch_calls,
                   year_options, month_options, day_options, arg, ret>>

\* "distance_km" from a "distance" column in metres
derive_distance_km(d) ==
    IF "distance_km" \in d.columns THEN d
    ELSE LET col == FirstPresent(<<"distance", "distance_km">>, d)
         IN  IF col = "" THEN d
             ELSE IF col = "distance"
                  THEN LET km(r) == RDivInt(to_numeric(r[col]), 1000)
                       IN  WithColumn(d, "distance_km", km)
                  ELSE LET same(r) == to_numeric(r[col])
                       IN  WithColumn(d, "distance_km", same)

\* "duration_min" from the first duration column in seconds
derive_duration_min(d) ==
    IF "duration_min" \in d.columns THEN d
    ELSE LET col == FirstPresent(<<"moving_time", "elapsed_time", "duration">>, d)
         IN  IF col = "" THEN d
             ELSE LET minutes(r) == RDivInt(to_numeric(r[col]), 60)
                  IN  WithColumn(d, "duration_min", minutes)

\* "type" from the first activity-type column
derive_type(d) ==
    IF "type" \in d.columns THEN d
    ELSE LET col == FirstPresent(<<"sport_type", "type", "activity_type">>, d)
         IN  IF col = "" THEN d
             ELSE LET copy(r) == r[col]
                  IN  WithColumn(d, "type", copy)

NormalizeColumns ==
    /\ pc = "normalize"
    /\ df' = derive_type(derive_duration_min(derive_distance_km(df)))
    /\ pc' = "validate"
    /\ UNCHANGED <<csv, df_filtered, rendered, kpi, cat_pace, exception, sel_year,
                   sel_month, sel_day, per_page, max_pages, clicked, btn_fetch,
                   fetch_calls, year_options, month_options, day_options, arg, ret>>

\* the distance mask written ">= 0": zero-distance rows survive
validity_pass_mut(d) ==
    LET has_date(r) == r["date"] # NaT
        pos_dist(r) == ~isna(r["distance_km"]) /\ r["distance_km"][1] >= 0
        pos_dur(r)  == GtZero(r["duration_min"])
        d1 == Where(d, has_date)
        d2 == IF "distance_km" \in d1.columns THEN Where(d1, pos_dist) ELSE d1
    IN  IF "duration_min" \in d2.columns THEN Where(d2, pos_dur) ELSE d2

\* dropna(subset=["date"]) and the two "> 0" masks
validity_pass(d) ==
    LET has_date(r) == r["date"] # NaT
        pos_dist(r) == GtZero(r["distance_km"])
        pos_dur(r)  == GtZero(r["duration_min"])
        d1 == Where(d, has_date)
        d2 == IF "distance_km" \in d1.columns THEN Where(d1, pos_dist) ELSE d1
    IN  IF "duration_min" \in d2.columns THEN Where(d2, pos_dur) ELSE d2

\* the validity pass without its st.stop(): an empty table goes on
Validate_mut ==
    /\ pc = "validate"
    /\ df' = validity_pass(df)
    /\ rendered' = IF empty(df') THEN rendered \cup {"error_no_valid_data"} ELSE rendered
    /\ pc' = "sidebar"
    /\ UNCHANGED <<csv, df_filtered, kpi, cat_pace, exception, sel_year, sel_month,
                   sel_day, per_page, max_pages, clicked, btn_fetch, fetch_calls,
                   year_options, month_options, day_options, arg, ret>>

Validate ==
    /\ pc = "validate"
    /\ df' = validity_pass(df)
    /\ IF empty(df')
       THEN /\ rendered' = rendered \cup {"error_no_valid_data"}
            /\ pc' = "stopped"
       ELSE /\ rendered' = rendered
            /\ pc' = "sidebar"
    /\ UNCHANGED <<csv, df_filtered, kpi, cat_pace, exception, sel_year, sel_month,
                   sel_day, per_page, max_pages, clicked, btn_fetch, fetch_calls,
                   year_options, month_options, day_options, arg, ret>>

-----------------------------------------------------------------------------
(* Sidebar and time-window filter.                                         *)

Min(S) == CHOOSE x \in S : \A y \in S : x <= y

RECURSIVE sorted(_)
sorted(S) == IF S = {} THEN <<>> ELSE <<Min(S)>> \o sorted(S \ {Min(S)})

\* df["date"].dt.<part>.dropna().unique()
unique(d, part(_)) == {part(d.rows[i]["date"]) : i \in 1..Len(d.rows)}

month_map ==
    << <<"J", "a", "n">>, <<"F", "e", "v">>, <<"M", "a", "r">>, <<"A", "b", "r">>,
       <<"M", "a", "i">>, <<"J", "u", "n">>, <<"J", "u", "l">>, <<"A", "g", "o">>,
       <<"S", "e", "t">>, <<"O", "u", "t">>, <<"N", "o", "v">>, <<"D", "e", "z">> >>

Sep == <<" ", "-", " ">>

\* f"{m:02d} - {month_map.get(m, str(m))}"
month_label(m) == fmt02d(m) \o Sep \o month_map[m]

\* s.split(" - ")[0]
split_head(s) ==
    LET at == {i \in 1..(Len(s) - 2) : SubSeq(s, i, i + 2) = Sep}
    IN  IF at = {} THEN s ELSE SubSeq(s, 1, Min(at) - 1)

YearOptions(d) ==
    LET years == sorted(unique(d, year))
    IN  <<Todos>> \o [i \in 1..Len(years) |-> str(years[i])]

MonthOptions(d) ==
    LET months_present == sorted(unique(d, month))
    IN  <<Todos>> \o [i \in 1..Len(months_present) |-> month_label(months_present[i])]

DayOptions(d) ==
    LET days_present == sorted(unique(d, day))
    IN  <<Todos>> \o [i \in 1..Len(days_present) |-> str(days_present[i])]

SidebarWidgets == {"per_page", "max_pages", "btn_fetch", "sel_year", "sel_month", "sel_day"}

Sidebar ==
    /\ pc = "sidebar"
    /\ rendered' = rendered \cup SidebarWidgets
    /\ btn_fetch' = clicked
    /\ year_options' = YearOptions(df)
    /\ month_options' = MonthOptions(df)
    /\ day_options' = DayOptions(df)
    /\ pc' = "filter"
    /\ UNCHANGED <<csv, df, df_filtered, kpi, cat_pace, exception, sel_year, sel_month,
                   sel_day, per_page, max_pages, clicked, fetch_calls, arg, ret>>

filter_year(d, selected_year) ==
    IF selected_year # Todos
    THEN LET hit(r) == year(r["date"]) = parse_int(selected_year)
         IN  Where(d, hit)
    ELSE d

\* the month filter comparing the wrong date part
filter_month_mut(d, selected_month_raw) ==
    IF selected_month_raw # Todos
    THEN LET month_num == parse_int(split_head(selected_month_raw))
             hit(r) == day(r["date"]) = month_num
         IN  Where(d, hit)
    ELSE d

filter_month(d, selected_month_raw) ==
    IF selected_month_raw # Todos
    THEN LET month_num == parse_int(split_head(selected_month_raw))
             hit(r) == month(r["date"]) = month_num
         IN  Where(d, hit)
    ELSE d

filter_day(d, selected_day) ==
    IF selected_day # Todos
    THEN LET hit(r) == day(r["date"]) = parse_int(selected_day)
         IN  Where(d, hit)
    ELSE d

\* no statement of the try block can raise on the options the sidebar offers,
\* so the except branch (df_filtered = df.copy()) is never taken
Filter ==
    /\ pc = "filter"
    /\ df_filtered' = filter_day(filter_month(filter_year(df, sel_year), sel_month), sel_day)
    /\ pc' = "kpis"
    /\ UNCHANGED <<csv, df, rendered, kpi, cat_pace, exception, sel_year, sel_month,
                   sel_day, per_page, max_pages, clicked, btn_fetch, fetch_calls,
                   year_options, month_options, day_options, arg, ret>>

-----------------------------------------------------------------------------
(* KPIs.                                                                   *)

\* Series.sum(): NaN cells are skipped
RECURSIVE sum(_, _)
sum(rows, c) ==
    IF rows = <<>> THEN Real(0, 1)
    ELSE LET rest == sum(Tail(rows), c)
         IN  IF isna(Head(rows)[c]) THEN rest ELSE RAdd(Head(rows)[c], rest)

\* f"{x}" of a float already rounded to one decimal
fmt_float(x) ==
    LET t == (x[1] * 10) \div x[2]
    IN  str(t \div 10) \o <<".">> \o <<DigitChar[(t % 10) + 1]>>

\* avg_pace of render_kpis; None is NaN
avg_pace(df_kpi) ==
    IF {"duration_min", "distance_km"} \subseteq df_kpi.columns
       /\ GtZero(sum(df_kpi.rows, "distance_km"))
    THEN round1(RDiv(sum(df_kpi.rows, "duration_min"), sum(df_kpi.rows, "distance_km")))
    ELSE NaN

\* the four st.metric values of render_kpis
render_kpis(df_kpi) ==
    LET total_acts == Len(df_kpi.rows)
        total_dist == IF "distance_km" \in df_kpi.columns
                      THEN round1(sum(df_kpi.rows, "distance_km")) ELSE NaN
        total_dur_hours == IF "duration_min" \in df_kpi.columns
                           THEN round1(RDivInt(sum(df_kpi.rows, "duration_min"), 60))
                           ELSE NaN
        pace == avg_pace(df_kpi)
    IN  [acts  |-> str(total_acts),
         dist  |-> IF isna(total_dist) THEN NA ELSE fmt_float(total_dist),
         hours |-> IF isna(total_dur_hours) THEN NA
                   ELSE fmt_float(total_dur_hours) \o <<" ", "h">>,
         pace  |-> IF isna(pace) THEN NA ELSE format_pace_minutes(pace)]

KpiMetrics == {"kpi_total_acts", "kpi_total_dist", "kpi_total_dur", "kpi_pace"}

\* df_kpi["date"].min() of a frame without rows is NaT, and NaT.strftime
\* raises ValueError before any st.metric call
RenderKpis ==
    /\ pc = "kpis"
    /\ IF "date" \in df_filtered.columns /\ df_filtered.rows = <<>>
       THEN /\ exception' = "ValueError"
            /\ pc' = "crashed"
            /\ UNCHANGED <<kpi, rendered>>
       ELSE /\ kpi' = render_kpis(df_filtered)
            /\ rendered' = rendered \cup KpiMetrics
            /\ pc' = "charts_col1"
            /\ UNCHANGED exception
    /\ UNCHANGED <<csv, df, df_filtered, cat_pace, sel_year, sel_month,
                   sel_day, per_page, max_pages, clicked, btn_fetch, fetch_calls,
                   year_options, month_options, day_options, arg, ret>>

-----------------------------------------------------------------------------
(* Charts and download.                                                    *)

\* a chart builder of etl.py: a figure when the frame has rows and the
\* columns the chart draws, otherwise None
etl_chart(df_in, needs) ==
    IF empty(df_in) \/ ~(needs \subseteq df_in.columns) THEN "None" ELSE "fig"

create_distance_over_time(df_in) == etl_chart(df_in, {"date", "distance_km"})

create_pace_trend(df_in) == etl_chart(df_in, {"date", "distance_km", "duration_min"})

create_activity_type_pie(df_in) == etl_chart(df_in, {"type"})

create_monthly_stats(df_in) == etl_chart(df_in, {"date", "distance_km"})

ChartsCol1 ==
    /\ pc = "charts_col1"
    /\ rendered' = rendered
            \cup (IF create_distance_over_time(df_filtered) = "fig"
                  THEN {"chart_distance_over_time"} ELSE {})
            \cup (IF create_pace_trend(df_filtered) = "fig"
                  THEN {"chart_pace_trend"} ELSE {})
    /\ pc' = "type_pie"
    /\ UNCHANGED <<csv, df, df_filtered, kpi, cat_pace, exception, sel_year, sel_month,
                   sel_day, per_page, max_pages, clicked, btn_fetch, fetch_calls,
                   year_options, month_options, day_options, arg, ret>>

ActivityTypePie ==
    /\ pc = "type_pie"
    /\ rendered' = rendered
            \cup (IF create_activity_type_pie(df_filtered) = "fig"
                  THEN {"chart_activity_type_pie"} ELSE {})
    /\ pc' = "runs_by_km"
    /\ UNCHANGED <<csv, df, df_filtered, kpi, cat_pace, exception, sel_year, sel_month,
                   sel_day, per_page, max_pages, clicked, btn_fetch, fetch_calls,
                   year_options, month_options, day_options, arg, ret>>

\* outcome of total_runs_by_km: "None", "fig", or the exception it raises;
\* the columns are read unguarded, and px.scatter rejects a hover_name that
\* is not a column
total_runs_by_km(df_in) ==
    IF empty(df_in) THEN "None"
    ELSE IF ~({"distance_km", "duration_min", "type"} \subseteq df_in.columns)
         THEN "KeyError"
    ELSE IF "name" \notin df_in.columns THEN "ValueError"
    ELSE "fig"

TotalRunsByKm ==
    /\ pc = "runs_by_km"
    /\ LET fig_km == total_runs_by_km(df_filtered)
       IN  IF fig_km \in {"KeyError", "ValueError"}
           THEN /\ exception' = fig_km
                /\ pc' = "crashed"
                /\ rendered' = rendered
           ELSE /\ rendered' = rendered
                        \cup (IF fig_km = "fig" THEN {"chart_runs_by_km"} ELSE {})
                /\ pc' = "monthly"
                /\ exception' = exception
    /\ UNCHANGED <<csv, df, df_filtered, kpi, cat_pace, sel_year, sel_month,
                   sel_day, per_page, max_pages, clicked, btn_fetch, fetch_calls,
                   year_options, month_options, day_options, arg, ret>>

MonthlyStats ==
    /\ pc = "monthly"
    /\ rendered' = rendered
            \cup (IF create_monthly_stats(df_filtered) = "fig"
                  THEN {"chart_monthly"} ELSE {})
    /\ pc' = "pace_by_category"
    /\ UNCHANGED <<csv, df, df_filtered, kpi, cat_pace, exception, sel_year, sel_month,
                   sel_day, per_page, max_pages, clicked, btn_fetch, fetch_calls,
                   year_options, month_options, day_options, arg, ret>>

\* pace_min_km of one row: duration / distance rounded to one decimal, NA
\* when the distance is not positive (cells are fillna(0) first)
row_pace(r) ==
    LET dist == IF isna(r["distance_km"]) THEN Real(0, 1) ELSE r["distance_km"]
        dur  == IF isna(r["duration_min"]) THEN Real(0, 1) ELSE r["duration_min"]
    IN  IF GtZero(dist) THEN round1(RDiv(dur, dist)) ELSE NaN

row_category(r) ==
    categorize_distance(IF isna(r["distance_km"]) THEN Real(0, 1) ELSE r["distance_km"])

\* groupby("category")["pace_min_km"].mean(), groups without a pace dropped;
\* one bar per group, labelled with format_pace_minutes
cat_pace_table(df_in) ==
    LET n == Len(df_in.rows)
        paces(c) == SelectSeq([i \in 1..n |-> [cat |-> row_category(df_in.rows[i]),
                                               p   |-> row_pace(df_in.rows[i])]],
                              LAMBDA e : e.cat = c /\ ~isna(e.p))
    IN  { [category    |-> c,
           pace_min_km |-> RDivInt(sum(paces(c), "p"), Len(paces(c))),
           text        |-> format_pace_minutes(RDivInt(sum(paces(c), "p"), Len(paces(c))))] :
             c \in {k \in Categories : Len(paces(k)) > 0} }

\* outcome of pace_by_category: "None", "fig" or the exception it raises
pace_by_category(df_in) ==
    IF empty(df_in) THEN "None"
    ELSE IF ~({"distance_km", "duration_min"} \subseteq df_in.columns) THEN "KeyError"
    ELSE IF cat_pace_table(df_in) = {} THEN "None"
    ELSE "fig"

PaceByCategory ==
    /\ pc = "pace_by_category"
    /\ LET fig_cat == pace_by_category(df_filtered)
       IN  IF fig_cat = "KeyError"
           THEN /\ exception' = fig_cat
                /\ pc' = "crashed"
                /\ UNCHANGED <<rendered, cat_pace>>
           ELSE /\ rendered' = rendered
                        \cup (IF fig_cat = "fig" THEN {"chart_pace_by_category"} ELSE {})
                /\ cat_pace' = IF fig_cat = "fig" THEN cat_pace_table(df_filtered) ELSE {}
                /\ pc' = "download"
                /\ exception' = exception
    /\ UNCHANGED <<csv, df, df_filtered, kpi, sel_year, sel_month,
                   sel_day, per_page, max_pages, clicked, btn_fetch, fetch_calls,
                   year_options, month_options, day_options, arg, ret>>

Download ==
    /\ pc = "download"
    /\ rendered' = rendered
            \cup (IF ~empty(df_filtered) THEN {"download_button"} ELSE {})
            \cup (IF ~empty(df) THEN {"periodo_total"} ELSE {})
    /\ pc' = "done"
    /\ UNCHANGED <<csv, df, df_filtered, kpi, cat_pace, exception, sel_year, sel_month,
                   sel_day, per_page, max_pages, clicked, btn_fetch, fetch_calls,
                   year_options, month_options, day_options, arg, ret>>

-----------------------------------------------------------------------------
(* User interactions.  Each one makes Streamlit run the script again from  *)
(* the top with the widget values kept under their keys.                   *)

Finished == pc \in {"done", "stopped", "crashed"}

\* the script's own names start afresh on every run
Rerun ==
    /\ pc' = "load"
    /\ df' = EmptyFrame
    /\ df_filtered' = EmptyFrame
    /\ rendered' = {}
    /\ kpi' = NoKpi
    /\ cat_pace' = {}
    /\ exception' = ""
    /\ btn_fetch' = FALSE
    /\ year_options' = <<>>
    /\ month_options' = <<>>
    /\ day_options' = <<>>
    /\ UNCHANGED <<csv, fetch_calls, arg, ret>>

Range(q) == {q[i] : i \in 1..Len(q)}

SelectYear ==
    /\ Finished /\ "sel_year" \in rendered
    /\ \E o \in Range(year_options) : o # sel_year /\ sel_year' = o
    /\ clicked' = FALSE
    /\ Rerun
    /\ UNCHANGED <<sel_month, sel_day, per_page, max_pages>>

SelectMonth ==
    /\ Finished /\ "sel_month" \in rendered
    /\ \E o \in Range(month_options) : o # sel_month /\ sel_month' = o
    /\ clicked' = FALSE
    /\ Rerun
    /\ UNCHANGED <<sel_year, sel_day, per_page, max_pages>>

SelectDay ==
    /\ Finished /\ "sel_day" \in rendered
    /\ \E o \in Range(day_options) : o # sel_day /\ sel_day' = o
    /\ clicked' = FALSE
    /\ Rerun
    /\ UNCHANGED <<sel_year, sel_month, per_page, max_pages>>

\* values of the two number inputs the user is taken to try
PerPageChoices == {10, 50, 200}

MaxPagesChoices == {1, 4, 50}

SetPerPage ==
    /\ Finished /\ "per_page" \in rendered
    /\ \E v \in PerPageChoices : v # per_page /\ per_page' = v
    /\ clicked' = FALSE
    /\ Rerun
    /\ UNCHANGED <<sel_year, sel_month, sel_day, max_pages>>

SetMaxPages ==
    /\ Finished /\ "max_pages" \in rendered
    /\ \E v \in MaxPagesChoices : v # max_pages /\ max_pages' = v
    /\ clicked' = FALSE
    /\ Rerun
    /\ UNCHANGED <<sel_year, sel_month, sel_day, per_page>>

\* "Buscar/Atualizar dados": st.button is True in the run the click starts
PressFetch ==
    /\ Finished /\ "btn_fetch" \in rendered
    /\ clicked' = TRUE
    /\ Rerun
    /\ UNCHANGED <<sel_year, sel_month, sel_day, per_page, max_pages>>

\* the page is opened again: a new session with every widget at its default
Reload ==
    /\ Finished
    /\ sel_year' = Todos
    /\ sel_month' = Todos
    /\ sel_day' = Todos
    /\ per_page' = 50
    /\ max_pages' = 4
    /\ clicked' = FALSE
    /\ Rerun

Next ==
    \/ Load
    \/ DateColumn
    \/ NormalizeColumns
    \/ Validate
    \/ Sidebar
    \/ Filter
    \/ RenderKpis
    \/ ChartsCol1
    \/ ActivityTypePie
    \/ TotalRunsByKm
    \/ MonthlyStats
    \/ PaceByCategory
    \/ Download
    \/ SelectYear
    \/ SelectMonth
    \/ SelectDay
    \/ SetPerPage
    \/ SetMaxPages
    \/ PressFetch
    \/ Reload

Spec == Init /\ [][Next]_vars

TypeOK == pc \in {"load", "date_col", "normalize", "validate", "sidebar", "filter", "kpis",
                  "charts_col1", "type_pie", "runs_by_km", "monthly", "pace_by_category",
                  "download", "done", "stopped", "crashed"}

-----------------------------------------------------------------------------
(* Specifications applying one helper function to every input of a grid.   *)

IdleRender ==
    /\ csv = [exists |-> FALSE, readable |-> FALSE, columns |-> {}, rows |-> <<>>]
    /\ df = EmptyFrame
    /\ df_filtered = EmptyFrame
    /\ rendered = {}
    /\ kpi = NoKpi
    /\ cat_pace = {}
    /\ exception = ""
    /\ sel_year = Todos
    /\ sel_month = Todos
    /\ sel_day = Todos
    /\ per_page = 50
    /\ max_pages = 4
    /\ clicked = FALSE
    /\ btn_fetch = FALSE
    /\ fetch_calls = <<>>
    /\ year_options = <<>>
    /\ month_options = <<>>
    /\ day_options = <<>>

RenderVars == <<csv, df, df_filtered, rendered, kpi, cat_pace, exception,
                sel_year, sel_month, sel_day, per_page, max_pages, clicked,
                btn_fetch, fetch_calls, year_options, month_options, day_options>>

\* paces in hundredths of a minute, and None
PaceInputs == {NaN} \cup {Real(k, 100) : k \in (-(MaxPaceMin * 100))..(MaxPaceMin * 100)}

InitFormatPace ==
    /\ IdleRender
    /\ pc = "call_format_pace_minutes"
    /\ arg \in PaceInputs
    /\ ret = <<>>

CallFormatPace ==
    /\ pc = "call_format_pace_minutes"
    /\ ret' = format_pace_minutes(arg)
    /\ pc' = "returned"
    /\ UNCHANGED <<arg, RenderVars>>

SpecFormatPace == InitFormatPace /\ [][CallFormatPace]_vars

\* distances in metres
DistInputs == {Real(k, 1000) : k \in 0..(MaxDistKm * 1000)}

InitCategorize ==
    /\ IdleRender
    /\ pc = "call_categorize_distance"
    /\ arg \in DistInputs
    /\ ret = <<>>

CallCategorize ==
    /\ pc = "call_categorize_distance"
    /\ ret' = <<categorize_distance(arg)>>
    /\ pc' = "returned"
    /\ UNCHANGED <<arg, RenderVars>>

SpecCategorize == InitCategorize /\ [][CallCategorize]_vars

-----------------------------------------------------------------------------
(* Properties.                                                             *)

AfterValidation == pc \in {"sidebar", "filter", "kpis", "charts_col1", "type_pie",
                           "runs_by_km", "monthly", "pace_by_category", "download",
                           "done", "crashed"}

AfterFilter == AfterValidation /\ pc \notin {"sidebar", "filter"}

AfterKpis == AfterFilter /\ pc # "kpis"

\* the pace text the specification describes: nearest whole second, halves up
NearestSecond(p) ==
    LET total == (2 * 60 * p[1] + p[2]) \div (2 * p[2])
    IN  str(total \div 60) \o <<":">> \o fmt02d(total % 60)

\* C8: format_pace_minutes gives "M:SS" with the pace rounded to the nearest
\* whole second (halves up) for every pace > 0, and "N/A" for every pace <= 0
\* and for an undefined pace.
C8_FormatPaceNearestSecond ==
    pc = "returned" =>
        IF isna(arg) \/ arg[1] <= 0 THEN ret = NA ELSE ret = NearestSecond(arg)

\* C9: categorize_distance sends every distance to exactly one of the four
\* buckets, d < 5 to Light, 5 <= d < 10 to Short, 10 <= d < 21 to Medium and
\* d >= 21 to HalfMarathonPlus, the boundary values going to the higher bucket.
C9_CategorizeBuckets ==
    pc = "returned" =>
        /\ Len(ret) = 1 /\ ret[1] \in Categories
        /\ (arg[1] < 5 * arg[2]) <=> (ret[1] = Light)
        /\ (5 * arg[2] <= arg[1] /\ arg[1] < 10 * arg[2]) <=> (ret[1] = Short)
        /\ (10 * arg[2] <= arg[1] /\ arg[1] < 21 * arg[2]) <=> (ret[1] = Medium)
        /\ (21 * arg[2] <= arg[1]) <=> (ret[1] = HalfMarathonPlus)
        /\ arg = Real(4999, 1000) => ret[1] = Light
        /\ arg = Real(5, 1) => ret[1] = Short
        /\ arg = Real(10, 1) => ret[1] = Medium
        /\ arg = Real(20999, 1000) => ret[1] = Medium
        /\ arg = Real(21, 1) => ret[1] = HalfMarathonPlus

C9_Witness == pc = "returned" /\ arg = Real(21, 1) /\ ret = <<HalfMarathonPlus>>

\* the rows of a frame whose distance falls in category c
InCategory(d, c) ==
    LET hit(r) == row_category(r) = c
    IN  SelectSeq(d.rows, hit)

\* C1: the pace pace_by_category reports for a category is the ratio of sums
\* sum(duration_min) / sum(distance_km) over the records of that category
\* (compared at the one-decimal precision the chart works in).
C1_CategoryRatioOfSums ==
    (AfterFilter /\ "chart_pace_by_category" \in rendered) =>
        \A e \in cat_pace :
            round1(e.pace_min_km) =
                round1(RDiv(sum(InCategory(df_filtered, e.category), "duration_min"),
                            sum(InCategory(df_filtered, e.category), "distance_km")))

Charts == {"chart_distance_over_time", "chart_pace_trend", "chart_activity_type_pie",
           "chart_runs_by_km", "chart_monthly", "chart_pace_by_category"}

\* C2: a pass whose selectors leave no row in df_filtered signals an "empty
\* selection" condition, renders no KPI and no chart, and has rendered the
\* three selectors; it does not end like a failed pass.
C2_SelectionEmptySignalled ==
    (Finished /\ "sel_year" \in rendered /\ empty(df_filtered)) =>
        /\ "warning_empty_selection" \in rendered
        /\ exception = ""
        /\ rendered \cap (KpiMetrics \cup Charts) = {}
        /\ {"sel_year", "sel_month", "sel_day"} \subseteq rendered

\* C3: once render_kpis has run, the pace KPI is the formatted ratio
\* sum(duration_min) / sum(distance_km) of the filtered collection when both
\* columns exist and the total distance is positive, and "N/A" when the total
\* distance is 0 or a column is absent.
C3_KpiPaceRatioOfSums ==
    AfterKpis =>
        IF {"duration_min", "distance_km"} \subseteq df_filtered.columns
           /\ GtZero(sum(df_filtered.rows, "distance_km"))
        THEN kpi.pace = format_pace_minutes(
                 round1(RDiv(sum(df_filtered.rows, "duration_min"),
                             sum(df_filtered.rows, "distance_km"))))
        ELSE kpi.pace = NA

\* a record's date matches the three selectors, each "Todos" or an offered value
Matches(r) ==
    /\ sel_year = Todos \/ str(year(r["date"])) = sel_year
    /\ sel_month = Todos \/ month_label(month(r["date"])) = sel_month
    /\ sel_day = Todos \/ str(day(r["date"])) = sel_day

\* C4: df_filtered is exactly the records of df matching every selector that
\* is not "Todos"; a "Todos" selector removes nothing; the three filters give
\* the same table in every order.
C4_TimeWindowConjunction ==
    AfterFilter =>
        /\ df_filtered = Where(df, Matches)
        /\ filter_year(df, Todos) = df
        /\ filter_month(df, Todos) = df
        /\ filter_day(df, Todos) = df
        /\ filter_day(filter_month(filter_year(df, sel_year), Todos), Todos)
               = filter_year(df, sel_year)
        /\ df_filtered = filter_month(filter_day(filter_year(df, sel_year), sel_day), sel_month)
        /\ df_filtered = filter_year(filter_day(filter_month(df, sel_month), sel_day), sel_year)
        /\ df_filtered = filter_year(filter_month(filter_day(df, sel_day), sel_month), sel_year)
        /\ df_filtered = filter_day(filter_year(filter_month(df, sel_month), sel_year), sel_day)
        /\ df_filtered = filter_month(filter_year(filter_day(df, sel_day), sel_year), sel_month)

C4_Witness ==
    /\ pc = "kpis"
    /\ sel_year # Todos /\ sel_month # Todos /\ sel_day = Todos
    /\ Len(df_filtered.rows) = 1 /\ Len(df.rows) = 2

\* the two-row file of the scenario: 5000 m in 1800 s, then 0 m in 600 s
ScenarioFile ==
    LET cols == {"date", "distance", "moving_time"}
        a1 == [date |-> <<2024, 3, 1>>, distance |-> Real(5000, 1), moving_time |-> Real(1800, 1),
               type |-> "Run", name |-> "a1"]
        a2 == [date |-> <<2024, 3, 5>>, distance |-> Real(0, 1), moving_time |-> Real(600, 1),
               type |-> "Run", name |-> "a2"]
    IN  [exists |-> TRUE, readable |-> TRUE, columns |-> cols,
         rows |-> << [c \in cols |-> CellOf(a1, c)], [c \in cols |-> CellOf(a2, c)] >>]

ValidRow(d, r) ==
    /\ r["date"] # NaT
    /\ "distance_km" \in d.columns => (~isna(r["distance_km"]) /\ r["distance_km"][1] > 0)
    /\ "duration_min" \in d.columns => (~isna(r["duration_min"]) /\ r["duration_min"][1] > 0)

\* C5: after the validity pass every record of df and df_filtered has a parsed
\* date, a distance_km > 0 when the field exists and a duration_min > 0 when
\* the field exists; the validity pass applied to its own output removes
\* nothing; the scenario file leaves exactly one record, 5.0 km in 30.0 min.
C5_ValidatedRecords ==
    AfterValidation =>
        /\ "date" \in df.columns
        /\ \A i \in 1..Len(df.rows) : ValidRow(df, df.rows[i])
        /\ \A i \in 1..Len(df_filtered.rows) : ValidRow(df_filtered, df_filtered.rows[i])
        /\ validity_pass(df) = df
        /\ csv = ScenarioFile =>
              /\ Len(df.rows) = 1
              /\ df.rows[1]["distance_km"] = Real(5, 1)
              /\ df.rows[1]["duration_min"] = Real(30, 1)
              /\ df.rows[1]["date"] = <<2024, 3, 1>>

C5_Witness == pc = "sidebar" /\ csv = ScenarioFile /\ Len(df.rows) = 1

\* C6: with a date column but no derivable distance_km, duration_min or type,
\* the pass over a non-empty selection runs to its end: no step fails.
C6_DerivedFieldDegrades ==
    (AfterKpis /\ ~empty(df_filtered)
        /\ ~({"distance_km", "duration_min", "type"} \subseteq df.columns)) =>
        /\ pc # "crashed"
        /\ exception = ""

\* C7: in a pass started by pressing "Buscar/Atualizar dados" the remote fetch
\* is invoked with the current per_page and max_pages.
C7_RefreshFetches ==
    (btn_fetch /\ pc \notin {"sidebar", "filter"}) =>
        /\ Len(fetch_calls) > 0
        /\ fetch_calls[Len(fetch_calls)] = <<per_page, max_pages>>

LoadFails(f) == ~f.exists \/ ~f.readable \/ f.columns = {} \/ f.rows = <<>>

SchemaFails(f) == f.columns \cap {"date", "start_date", "start_date_local"} = {}

\* no row of the file has a parsable date and positive distance and duration
\* in the columns the normaliser reads
ValidationEmpty(f) ==
    LET dcol == FirstPresent(DateColumns, f)
        kcol == FirstPresent(<<"distance_km", "distance">>, f)
        mcol == FirstPresent(<<"duration_min", "moving_time", "elapsed_time", "duration">>, f)
    IN  \A i \in 1..Len(f.rows) :
            \/ to_datetime(f.rows[i][dcol]) = NaT
            \/ kcol # "" /\ ~GtZero(to_numeric(f.rows[i][kcol]))
            \/ mcol # "" /\ ~GtZero(to_numeric(f.rows[i][mcol]))

Errors == {"error_no_data", "error_no_date_column", "error_no_valid_data"}

\* C10: the fatal conditions are tested in the order load failure, schema
\* failure, validation-empty; the first that holds stops the pass, which then
\* shows that error only and no selector, KPI, chart or download button; a
\* pass that reaches the sidebar has passed all three.
C10_FatalOrder ==
    /\ pc = "stopped" =>
          /\ rendered \cap (SidebarWidgets \cup KpiMetrics \cup Charts
                                \cup {"download_button", "periodo_total"}) = {}
          /\ rendered \cap Errors =
                 IF LoadFails(csv) THEN {"error_no_data"}
                 ELSE IF SchemaFails(csv) THEN {"error_no_date_column"}
                 ELSE {"error_no_valid_data"}
          /\ LoadFails(csv) \/ SchemaFails(csv) \/ ValidationEmpty(csv)
    /\ AfterValidation =>
          /\ ~LoadFails(csv) /\ ~SchemaFails(csv) /\ ~ValidationEmpty(csv)
          /\ rendered \cap Errors = {}
    /\ (Finished /\ (LoadFails(csv) \/ SchemaFails(csv) \/ ValidationEmpty(csv))) =>
          pc = "stopped"

C10_Witness ==
    /\ pc = "stopped"
    /\ ~LoadFails(csv) /\ ~SchemaFails(csv) /\ ValidationEmpty(csv)
    /\ "error_no_valid_data" \in rendered

====
